---- MODULE Spec2Model ----
(***************************************************************************)
(* A model of gexec.Session (src/gexec/session.go): Start wires the        *)
(* command's stdout/stderr to the two capture buffers (optionally through  *)
(* io.MultiWriter to a sink), starts the command, and launches the         *)
(* goroutine monitorForExit, which waits for the command and records its   *)
(* exit status under the session's mutex. getExitCode reads the recorded   *)
(* status under the same mutex.                                            *)
(*                                                                         *)
(* Tasks of the model: the caller of Start, the watcher goroutine, one     *)
(* output pump per stream (the copying goroutine os/exec starts for a      *)
(* destination that is not a file), the external process, and the          *)
(* goroutines that call getExitCode.                                       *)
(***************************************************************************)
EXTENDS Integers, Sequences, FiniteSets, TLC

\* ------------------------------------------------------------------ bounds
\* The number of bytes the process writes, over both streams.
MaxEmit == 2
\* The same number in the runs that check eventual properties.
MaxLiveEmit == 1

\* ----------------------------------------------------------- input domains
Streams == {"out", "err"}
Queriers == {"q1", "q2"}
\* Exit statuses a process passes to exit(2), and signals that can kill it.
ExitCodes == {0, 1, 255}
Signals == {9, 15}
\* reflect.Kind of the dynamic value of an io.Writer argument.
NilableKinds == {"Ptr"}
OtherKinds == {"Struct"}
\* The untyped nil interface: reflect.ValueOf(nil) is the zero Value.
NilInterface == [kind |-> "Invalid", isNil |-> TRUE]
SinkValues ==
    {NilInterface}
    \cup {[kind |-> k, isNil |-> n] : k \in NilableKinds, n \in BOOLEAN}
    \cup {[kind |-> k, isNil |-> FALSE] : k \in OtherKinds}

\* exitCode: -1 of the Session literal in Start.
Sentinel == -1

VARIABLES
    startPc,      \* position of the caller inside Start
    outWriter,    \* Start's argument outWriter
    errWriter,    \* Start's argument errWriter
    retSession,   \* the *Session Start returned: "none" before it returns
    cmdDest,      \* command.Stdout / command.Stderr: the writers of each stream
    startErr,     \* err of command.Start(): "unset", "nil" or "err"
    panicked,     \* the program has died of an unrecovered panic
    budget,       \* the number of bytes the process writes before it stops writing
    proc,         \* the external process: "notStarted", "running", "exited"
    termination,  \* how the process terminated: exit(n) or killed by signal n
    emitted,      \* the bytes the process has written to each stream
    pipe,         \* the bytes written by the process and not yet read by the pump
    pump,         \* the copying goroutine of each stream
    buf,          \* content of session.Out / session.Err
    sinkGot,      \* the bytes each sink has accepted
    watcherPc,    \* position of monitorForExit
    watchers,     \* number of go statements executed for monitorForExit
    waitErr,      \* what Command.Wait() returned to the watcher
    lock,         \* holder of session.lock, or "free"
    exitCode,     \* session.exitCode
    exitWriting,  \* the store to session.exitCode is in progress
    writes,       \* number of stores to session.exitCode after construction
    qpc,          \* position of each getExitCode caller
    qret,         \* the value each caller read / last returned
    qdone,        \* each caller has a returned value in qret
    qAfter,       \* the current query of each caller started after the watcher finished
    qSeen,        \* the non-sentinel values returned before the current query started
    returned,     \* every value a completed query has returned
    copyDest,     \* the writers the copying goroutines were started with
    finished,     \* who called command.Wait() first: "no", "watcher" or "caller"
    processState, \* command.ProcessState: "nil" until a Wait has set it
    callerPc,     \* the caller's own command.Wait(), if it makes one
    start2Pc,     \* position of the caller inside a second Start on the command
    writer2,      \* the sink arguments of the second Start
    start2Err,    \* err of command.Start() in the second Start
    exitCode2,    \* exitCode of the second Start's session
    watchers2,    \* number of go statements the second Start executed
    ret2          \* the values getExitCode has returned on the second session

vars == <<startPc, outWriter, errWriter, retSession, cmdDest, startErr, panicked,
          budget, proc, termination, emitted, pipe, pump, buf, sinkGot,
          watcherPc, watchers, waitErr, lock, exitCode, exitWriting, writes,
          qpc, qret, qdone, qAfter, qSeen, returned,
          copyDest, finished, processState, callerPc,
          start2Pc, writer2, start2Err, exitCode2, watchers2, ret2>>

startVars == <<startPc, outWriter, errWriter, retSession, cmdDest, startErr>>
procVars == <<budget, proc, termination, emitted, pipe>>
pumpVars == <<pump, buf, sinkGot>>
watcherVars == <<watcherPc, watchers, waitErr>>
storeVars == <<lock, exitCode, exitWriting, writes>>
queryVars == <<qpc, qret, qdone, qAfter, qSeen, returned>>
waitVars == <<finished, processState, callerPc>>
secondVars == <<start2Pc, writer2, start2Err, exitCode2, watchers2, ret2>>

\* ------------------------------------------------------------- helpers
Running == [kind |-> "none", n |-> 0]
Terminations ==
    {[kind |-> "exit", n |-> c] : c \in ExitCodes}
    \cup {[kind |-> "signal", n |-> g] : g \in Signals}

\* The status word wait4(2) reports and ProcessState.Sys() hands out: the exit
\* status in bits 8..15 with a zero low byte, or the signal number in bits 0..6.
WaitStatusOf(t) == IF t.kind = "exit" THEN t.n * 256 ELSE t.n

\* The status taken from the low byte of the status word.
ExitStatus_LowByte(w) == IF w % 128 = 0 THEN w % 256 ELSE -1

\* syscall.WaitStatus.ExitStatus(): -1 unless Exited() (w & 0x7F == 0), else
\* (w >> 8) & 0xFF.
ExitStatus(w) == IF w % 128 = 0 THEN (w \div 256) % 256 ELSE -1

\* reflect.Value.IsNil panics unless the kind is chan, func, interface, map,
\* pointer or slice.
IsNilPanics(w) == w.kind \notin NilableKinds

\* outWriter != nil && !reflect.ValueOf(outWriter).IsNil(), where it does not panic.
SinkPresent(w) == w # NilInterface /\ ~w.isNil

\* The same condition panics: && evaluates IsNil only for a non-nil interface.
SinkCheckPanics(w) == w # NilInterface /\ IsNilPanics(w)

\* The fan-out with the sink before the buffer.
Destination_SinkFirst(w) == IF SinkPresent(w) THEN <<"sink", "buffer">> ELSE <<"buffer">>

\* commandOut: the buffer alone, or io.MultiWriter(buffer, sink).
Destination(w) == IF SinkPresent(w) THEN <<"buffer", "sink">> ELSE <<"buffer">>

WriterOf(s) == IF s = "out" THEN outWriter ELSE errWriter

Idle == [pc |-> "none", chunk |-> <<>>, idx |-> 1, err |-> FALSE]

Emitted == Len(emitted["out"]) + Len(emitted["err"])

\* exitCode: -1 in the Session literal.
InitExitCode == Sentinel

\* ------------------------------------------------------------------ Init
\* The state after the Session literal of Start (lines 51-57), for sink
\* arguments drawn from outs and errs and a process that writes at most b bytes.
InitWith(outs, errs, b) ==
    /\ startPc = "wire"
    /\ outWriter \in outs
    /\ errWriter \in errs
    /\ budget = b
    /\ retSession = "none"
    /\ cmdDest = [s \in Streams |-> <<>>]
    /\ startErr = "unset"
    /\ panicked = FALSE
    /\ proc = "notStarted"
    /\ termination = Running
    /\ emitted = [s \in Streams |-> <<>>]
    /\ pipe = [s \in Streams |-> <<>>]
    /\ pump = [s \in Streams |-> Idle]
    /\ buf = [s \in Streams |-> <<>>]
    /\ sinkGot = [s \in Streams |-> <<>>]
    /\ watcherPc = "none"
    /\ watchers = 0
    /\ waitErr = "unset"
    /\ lock = "free"
    /\ exitCode = InitExitCode
    /\ exitWriting = FALSE
    /\ writes = 0
    /\ qpc = [q \in Queriers |-> "idle"]
    /\ qret = [q \in Queriers |-> Sentinel]
    /\ qdone = [q \in Queriers |-> FALSE]
    /\ qAfter = [q \in Queriers |-> FALSE]
    /\ qSeen = [q \in Queriers |-> {}]
    /\ returned = {}
    /\ copyDest = [s \in Streams |-> <<>>]
    /\ finished = "no"
    /\ processState = "nil"
    /\ callerPc = "none"
    /\ start2Pc = "idle"
    /\ writer2 = [s \in Streams |-> NilInterface]
    /\ start2Err = "unset"
    /\ exitCode2 = Sentinel
    /\ watchers2 = 0
    /\ ret2 = {}

Init == InitWith(SinkValues, SinkValues, MaxEmit)

\* The sessions of the runs that check eventual properties: stdout with and
\* without a sink, stderr without.
LiveInit ==
    InitWith({NilInterface, [kind |-> "Ptr", isNil |-> FALSE]}, {NilInterface},
             MaxLiveEmit)

\* ----------------------------------------------------------------- Start
\* A Start that leaves command.Stdout and command.Stderr unset.
StartWire_NoAttach ==
    /\ startPc = "wire"
    /\ ~panicked
    /\ IF SinkCheckPanics(outWriter) \/ SinkCheckPanics(errWriter)
       THEN /\ panicked' = TRUE
            /\ startPc' = "panicked"
       ELSE /\ startPc' = "start"
            /\ UNCHANGED panicked
    /\ UNCHANGED <<outWriter, errWriter, retSession, startErr, cmdDest>>
    /\ UNCHANGED <<procVars, pumpVars, watcherVars, storeVars, queryVars>>
    /\ UNCHANGED <<copyDest, waitVars, secondVars>>

\* Lines 59-72: the two presence checks, then command.Stdout / command.Stderr.
StartWire ==
    /\ startPc = "wire"
    /\ ~panicked
    /\ IF SinkCheckPanics(outWriter) \/ SinkCheckPanics(errWriter)
       THEN /\ panicked' = TRUE
            /\ startPc' = "panicked"
            /\ UNCHANGED cmdDest
       ELSE /\ cmdDest' = [s \in Streams |-> Destination(WriterOf(s))]
            /\ startPc' = "start"
            /\ UNCHANGED panicked
    /\ UNCHANGED <<outWriter, errWriter, retSession, startErr>>
    /\ UNCHANGED <<procVars, pumpVars, watcherVars, storeVars, queryVars>>
    /\ UNCHANGED <<copyDest, waitVars, secondVars>>

\* Line 74: command.Start(). A started command runs the process and one copying
\* goroutine per stream (neither destination is an *os.File).
StartCommand(ok) ==
    /\ startPc = "start"
    /\ ~panicked
    /\ startPc' = "go"
    /\ startErr' = IF ok THEN "nil" ELSE "err"
    /\ IF ok
       THEN /\ proc' = "running"
            /\ pump' = [s \in Streams |-> [Idle EXCEPT !.pc = "read"]]
       ELSE UNCHANGED <<proc, pump>>
    /\ UNCHANGED <<outWriter, errWriter, retSession, cmdDest, panicked>>
    /\ UNCHANGED <<budget, termination, emitted, pipe, buf, sinkGot>>
    /\ UNCHANGED <<watcherVars, storeVars, queryVars>>
    /\ copyDest' = IF ok THEN cmdDest ELSE copyDest
    /\ UNCHANGED <<waitVars, secondVars>>

\* The watcher launched whatever command.Start() returned.
LaunchesWatcher_Always == TRUE

\* Line 75: the watcher is launched only when command.Start() returned nil.
LaunchesWatcher == startErr = "nil"

\* Lines 75-77: if err == nil { go session.monitorForExit() }.
StartGo ==
    /\ startPc = "go"
    /\ ~panicked
    /\ startPc' = "return"
    /\ IF LaunchesWatcher
       THEN /\ watcherPc' = "wait"
            /\ watchers' = watchers + 1
       ELSE UNCHANGED <<watcherPc, watchers>>
    /\ UNCHANGED <<outWriter, errWriter, retSession, cmdDest, startErr, panicked>>
    /\ UNCHANGED <<procVars, pumpVars, waitErr, storeVars, queryVars>>
    /\ UNCHANGED <<copyDest, waitVars, secondVars>>

\* Line 79: return session, err.
StartReturn ==
    /\ startPc = "return"
    /\ ~panicked
    /\ startPc' = "returned"
    /\ retSession' = "session"
    /\ UNCHANGED <<outWriter, errWriter, cmdDest, startErr, panicked>>
    /\ UNCHANGED <<procVars, pumpVars, watcherVars, storeVars, queryVars>>
    /\ UNCHANGED <<copyDest, waitVars, secondVars>>

\* ----------------------------------------------------------- the process
\* The process writes one more byte to stream s. Bytes are numbered in emission
\* order, so every captured sequence shows its order.
ProcEmit(s) ==
    /\ proc = "running"
    /\ ~panicked
    /\ Emitted < budget
    /\ emitted' = [emitted EXCEPT ![s] = Append(@, Emitted + 1)]
    /\ pipe' = [pipe EXCEPT ![s] = Append(@, Emitted + 1)]
    /\ UNCHANGED <<budget, proc, termination>>
    /\ UNCHANGED <<startVars, panicked, pumpVars, watcherVars, storeVars, queryVars>>
    /\ UNCHANGED <<copyDest, waitVars, secondVars>>

\* The process terminates: it calls exit(n), or a signal kills it (sent by
\* anyone, the caller of Start included).
ProcTerminate(t) ==
    /\ proc = "running"
    /\ ~panicked
    /\ proc' = "exited"
    /\ termination' = t
    /\ UNCHANGED <<budget, emitted, pipe>>
    /\ UNCHANGED <<startVars, panicked, pumpVars, watcherVars, storeVars, queryVars>>
    /\ UNCHANGED <<copyDest, waitVars, secondVars>>

\* ------------------------------------------------------- the output pumps
\* io.Copy in the goroutine of command.Stdout / command.Stderr: Read returns the
\* first k bytes waiting in the pipe.
PumpRead(s, k) ==
    /\ pump[s].pc = "read"
    /\ ~panicked
    /\ k \in 1..Len(pipe[s])
    /\ pump' = [pump EXCEPT ![s] = [pc |-> "write", chunk |-> SubSeq(pipe[s], 1, k),
                                    idx |-> 1, err |-> FALSE]]
    /\ pipe' = [pipe EXCEPT ![s] = SubSeq(@, k + 1, Len(@))]
    /\ UNCHANGED <<budget, proc, termination, emitted, buf, sinkGot>>
    /\ UNCHANGED <<startVars, panicked, watcherVars, storeVars, queryVars>>
    /\ UNCHANGED <<copyDest, waitVars, secondVars>>

\* The pump after writer number idx of the destination took the chunk: the next
\* writer of the io.MultiWriter, or the next Read.
PumpNext(p, s) ==
    IF p.idx < Len(copyDest[s])
    THEN [p EXCEPT !.idx = p.idx + 1]
    ELSE [p EXCEPT !.pc = "read", !.chunk = <<>>, !.idx = 1]

\* A buffer that puts the chunk in front of its content.
PumpWriteBuffer_Prepends(s) ==
    /\ pump[s].pc = "write"
    /\ ~panicked
    /\ copyDest[s][pump[s].idx] = "buffer"
    /\ buf' = [buf EXCEPT ![s] = pump[s].chunk \o @]
    /\ pump' = [pump EXCEPT ![s] = PumpNext(@, s)]
    /\ UNCHANGED sinkGot
    /\ UNCHANGED <<startVars, panicked, procVars, watcherVars, storeVars, queryVars>>
    /\ UNCHANGED <<copyDest, waitVars, secondVars>>

\* The chunk of either stream lands in the stdout buffer.
PumpWriteBuffer_AllToOut(s) ==
    /\ pump[s].pc = "write"
    /\ ~panicked
    /\ copyDest[s][pump[s].idx] = "buffer"
    /\ buf' = [buf EXCEPT !["out"] = @ \o pump[s].chunk]
    /\ pump' = [pump EXCEPT ![s] = PumpNext(@, s)]
    /\ UNCHANGED sinkGot
    /\ UNCHANGED <<startVars, panicked, procVars, watcherVars, storeVars, queryVars>>
    /\ UNCHANGED <<copyDest, waitVars, secondVars>>

\* The chunk is written to the capture buffer, which appends all of it.
PumpWriteBuffer(s) ==
    /\ pump[s].pc = "write"
    /\ ~panicked
    /\ copyDest[s][pump[s].idx] = "buffer"
    /\ buf' = [buf EXCEPT ![s] = @ \o pump[s].chunk]
    /\ pump' = [pump EXCEPT ![s] = PumpNext(@, s)]
    /\ UNCHANGED sinkGot
    /\ UNCHANGED <<startVars, panicked, procVars, watcherVars, storeVars, queryVars>>
    /\ UNCHANGED <<copyDest, waitVars, secondVars>>

\* A fan-out that goes on after a short write to the sink.
PumpWriteSink_IgnoresShort(s, n, failed) ==
    /\ pump[s].pc = "write"
    /\ ~panicked
    /\ copyDest[s][pump[s].idx] = "sink"
    /\ n \in 0..Len(pump[s].chunk)
    /\ sinkGot' = [sinkGot EXCEPT ![s] = @ \o SubSeq(pump[s].chunk, 1, n)]
    /\ pump' = [pump EXCEPT ![s] =
                  IF failed
                  THEN [@ EXCEPT !.pc = "done", !.err = TRUE]
                  ELSE PumpNext(@, s)]
    /\ UNCHANGED buf
    /\ UNCHANGED <<startVars, panicked, procVars, watcherVars, storeVars, queryVars>>
    /\ UNCHANGED <<copyDest, waitVars, secondVars>>

\* The chunk is written to the sink, which accepts its first n bytes and reports
\* an error or not. io.MultiWriter fails the write on an error and on n below
\* the chunk's length (io.ErrShortWrite), and io.Copy then stops.
PumpWriteSink(s, n, failed) ==
    /\ pump[s].pc = "write"
    /\ ~panicked
    /\ copyDest[s][pump[s].idx] = "sink"
    /\ n \in 0..Len(pump[s].chunk)
    /\ sinkGot' = [sinkGot EXCEPT ![s] = @ \o SubSeq(pump[s].chunk, 1, n)]
    /\ pump' = [pump EXCEPT ![s] =
                  IF failed \/ n < Len(pump[s].chunk)
                  THEN [@ EXCEPT !.pc = "done", !.err = TRUE]
                  ELSE PumpNext(@, s)]
    /\ UNCHANGED buf
    /\ UNCHANGED <<startVars, panicked, procVars, watcherVars, storeVars, queryVars>>
    /\ UNCHANGED <<copyDest, waitVars, secondVars>>

\* Read reports EOF: the process is gone and the pipe is empty.
PumpEOF(s) ==
    /\ pump[s].pc = "read"
    /\ ~panicked
    /\ proc = "exited"
    /\ pipe[s] = <<>>
    /\ pump' = [pump EXCEPT ![s].pc = "done"]
    /\ UNCHANGED <<buf, sinkGot>>
    /\ UNCHANGED <<startVars, panicked, procVars, watcherVars, storeVars, queryVars>>
    /\ UNCHANGED <<copyDest, waitVars, secondVars>>

\* ----------------------------------------------------------- the watcher
\* A Wait that does not wait for the copying goroutines.
WaitReturns_ProcessOnly == proc = "exited"

\* Command.Wait() returns once the process has terminated and both copying
\* goroutines have finished.
WaitReturns == proc = "exited" /\ \A s \in Streams : pump[s].pc = "done"

\* What Command.Wait() returns: the wait's *ExitError for an unsuccessful
\* process, else the first copy error, else nil.
WaitResult ==
    IF termination # [kind |-> "exit", n |-> 0] THEN "exitError"
    ELSE IF \E s \in Streams : pump[s].err THEN "copyError"
    ELSE "nil"

\* A watcher that takes the mutex before it waits for the command.
WatcherWait_Locked ==
    /\ watcherPc = "wait"
    /\ ~panicked
    /\ finished # "caller"
    /\ \/ /\ lock = "free"
          /\ lock' = "watcher"
          /\ UNCHANGED <<watcherPc, waitErr, finished, processState>>
       \/ /\ lock = "watcher"
          /\ WaitReturns
          /\ watcherPc' = "store"
          /\ waitErr' = WaitResult
          /\ finished' = "watcher"
          /\ processState' = "set"
          /\ UNCHANGED lock
    /\ UNCHANGED <<watchers, exitCode, exitWriting, writes>>
    /\ UNCHANGED <<startVars, panicked, procVars, pumpVars, queryVars>>
    /\ UNCHANGED <<copyDest, callerPc, secondVars>>

\* Line 83: s.Command.Wait(), called by the watcher alone; its result is dropped.
\* The call marks the command as waited for, and its return sets ProcessState.
WatcherWait ==
    /\ watcherPc = "wait"
    /\ ~panicked
    /\ finished # "caller"
    /\ WaitReturns
    /\ watcherPc' = "lock"
    /\ waitErr' = WaitResult
    /\ finished' = "watcher"
    /\ processState' = "set"
    /\ UNCHANGED watchers
    /\ UNCHANGED <<startVars, panicked, procVars, pumpVars, storeVars, queryVars>>
    /\ UNCHANGED <<copyDest, callerPc, secondVars>>

\* sync.Mutex.Lock returns only when nobody holds the mutex.
LockAvailable == lock = "free"

\* Line 84: s.lock.Lock().
WatcherLock ==
    /\ watcherPc = "lock"
    /\ ~panicked
    /\ LockAvailable
    /\ lock' = "watcher"
    /\ watcherPc' = "store"
    /\ UNCHANGED <<exitCode, exitWriting, writes, watchers, waitErr>>
    /\ UNCHANGED <<startVars, panicked, procVars, pumpVars, queryVars>>
    /\ UNCHANGED <<copyDest, waitVars, secondVars>>

\* The value line 85 stores.
RecordedStatus == ExitStatus(WaitStatusOf(termination))

\* Line 85: s.Command.ProcessState is there, and the store to s.exitCode
\* begins ...
WatcherStoreBegin ==
    /\ watcherPc = "store"
    /\ ~panicked
    /\ processState = "set"
    /\ exitWriting' = TRUE
    /\ watcherPc' = "storing"
    /\ UNCHANGED <<lock, exitCode, writes, watchers, waitErr>>
    /\ UNCHANGED <<startVars, panicked, procVars, pumpVars, queryVars>>
    /\ UNCHANGED <<copyDest, waitVars, secondVars>>

\* ... and completes.
WatcherStoreEnd ==
    /\ watcherPc = "storing"
    /\ ~panicked
    /\ exitCode' = RecordedStatus
    /\ exitWriting' = FALSE
    /\ writes' = writes + 1
    /\ watcherPc' = "unlock"
    /\ UNCHANGED <<lock, watchers, waitErr>>
    /\ UNCHANGED <<startVars, panicked, procVars, pumpVars, queryVars>>
    /\ UNCHANGED <<copyDest, waitVars, secondVars>>

\* A watcher that loops: after the unlock it waits for the command again.
WatcherUnlock_Loops ==
    /\ watcherPc = "unlock"
    /\ ~panicked
    /\ lock' = "free"
    /\ watcherPc' = "wait"
    /\ UNCHANGED <<exitCode, exitWriting, writes, watchers, waitErr>>
    /\ UNCHANGED <<startVars, panicked, procVars, pumpVars, queryVars>>
    /\ UNCHANGED <<copyDest, waitVars, secondVars>>

\* Line 86: s.lock.Unlock(); monitorForExit returns.
WatcherUnlock ==
    /\ watcherPc = "unlock"
    /\ ~panicked
    /\ lock' = "free"
    /\ watcherPc' = "done"
    /\ UNCHANGED <<exitCode, exitWriting, writes, watchers, waitErr>>
    /\ UNCHANGED <<startVars, panicked, procVars, pumpVars, queryVars>>
    /\ UNCHANGED <<copyDest, waitVars, secondVars>>

\* ------------------------------------------------------------ getExitCode
\* A load of s.exitCode. A load that overlaps the store is a data race: it may
\* see the old value, the new one, or a word made of bytes of both.
LoadExitCode ==
    IF exitWriting
    THEN {exitCode, RecordedStatus, 65536 + RecordedStatus}
    ELSE {exitCode}

\* getExitCode is called on the session Start returned.
QueryCall(q) ==
    /\ startPc = "returned"
    /\ ~panicked
    /\ qpc[q] = "idle"
    /\ qpc' = [qpc EXCEPT ![q] = "lock"]
    /\ qdone' = [qdone EXCEPT ![q] = FALSE]
    /\ qAfter' = [qAfter EXCEPT ![q] = (watcherPc = "done")]
    /\ qSeen' = [qSeen EXCEPT ![q] = returned \ {Sentinel}]
    /\ UNCHANGED <<qret, returned>>
    /\ UNCHANGED <<startVars, panicked, procVars, pumpVars, watcherVars, storeVars>>
    /\ UNCHANGED <<copyDest, waitVars, secondVars>>

\* getExitCode without the mutex: the load may overlap the watcher's store.
QueryMayLock_Unlocked == TRUE

\* Whether getExitCode may pass line 90.
QueryMayLock == LockAvailable

\* Line 90: s.lock.Lock().
QueryLock(q) ==
    /\ qpc[q] = "lock"
    /\ ~panicked
    /\ QueryMayLock
    /\ lock' = q
    /\ qpc' = [qpc EXCEPT ![q] = "load"]
    /\ UNCHANGED <<exitCode, exitWriting, writes>>
    /\ UNCHANGED <<qret, qdone, qAfter, qSeen, returned>>
    /\ UNCHANGED <<startVars, panicked, procVars, pumpVars, watcherVars>>
    /\ UNCHANGED <<copyDest, waitVars, secondVars>>

\* A query that consumes the status: it puts the sentinel back after the load.
QueryLoad_Consumes(q) ==
    /\ qpc[q] = "load"
    /\ ~panicked
    /\ \E v \in LoadExitCode : qret' = [qret EXCEPT ![q] = v]
    /\ qpc' = [qpc EXCEPT ![q] = "unlock"]
    /\ exitCode' = Sentinel
    /\ UNCHANGED <<lock, exitWriting, writes>>
    /\ UNCHANGED <<qdone, qAfter, qSeen, returned>>
    /\ UNCHANGED <<startVars, panicked, procVars, pumpVars, watcherVars>>
    /\ UNCHANGED <<copyDest, waitVars, secondVars>>

\* Line 93: the return value is s.exitCode, loaded before the deferred Unlock.
QueryLoad(q) ==
    /\ qpc[q] = "load"
    /\ ~panicked
    /\ \E v \in LoadExitCode : qret' = [qret EXCEPT ![q] = v]
    /\ qpc' = [qpc EXCEPT ![q] = "unlock"]
    /\ UNCHANGED <<qdone, qAfter, qSeen, returned>>
    /\ UNCHANGED <<startVars, panicked, procVars, pumpVars, watcherVars, storeVars>>
    /\ UNCHANGED <<copyDest, waitVars, secondVars>>

\* Line 91: the deferred s.lock.Unlock(), and getExitCode returns.
QueryUnlock(q) ==
    /\ qpc[q] = "unlock"
    /\ ~panicked
    /\ lock' = IF lock = q THEN "free" ELSE lock
    /\ qpc' = [qpc EXCEPT ![q] = "idle"]
    /\ qdone' = [qdone EXCEPT ![q] = TRUE]
    /\ returned' = returned \cup {qret[q]}
    /\ UNCHANGED <<exitCode, exitWriting, writes>>
    /\ UNCHANGED <<qret, qAfter, qSeen>>
    /\ UNCHANGED <<startVars, panicked, procVars, pumpVars, watcherVars>>
    /\ UNCHANGED <<copyDest, waitVars, secondVars>>

\* ------------------------------------------------------------------ Next
Next ==
    \/ StartWire
    \/ \E ok \in BOOLEAN : StartCommand(ok)
    \/ StartGo
    \/ StartReturn
    \/ \E s \in Streams : ProcEmit(s)
    \/ \E t \in Terminations : ProcTerminate(t)
    \/ \E s \in Streams : \E k \in 1..MaxEmit : PumpRead(s, k)
    \/ \E s \in Streams : PumpWriteBuffer(s)
    \/ \E s \in Streams : \E n \in 0..MaxEmit : \E failed \in BOOLEAN :
          PumpWriteSink(s, n, failed)
    \/ \E s \in Streams : PumpEOF(s)
    \/ WatcherWait
    \/ WatcherLock
    \/ WatcherStoreBegin
    \/ WatcherStoreEnd
    \/ WatcherUnlock
    \/ \E q \in Queriers : QueryCall(q)
    \/ \E q \in Queriers : QueryLock(q)
    \/ \E q \in Queriers : QueryLoad(q)
    \/ \E q \in Queriers : QueryUnlock(q)

Spec == Init /\ [][Next]_vars

\* The steps of each task.
StartStep == StartWire \/ (\E ok \in BOOLEAN : StartCommand(ok)) \/ StartGo \/ StartReturn

PumpStep(s) ==
    \/ \E k \in 1..MaxEmit : PumpRead(s, k)
    \/ PumpWriteBuffer(s)
    \/ \E n \in 0..MaxEmit : \E failed \in BOOLEAN : PumpWriteSink(s, n, failed)
    \/ PumpEOF(s)

WatcherStep ==
    WatcherWait \/ WatcherLock \/ WatcherStoreBegin \/ WatcherStoreEnd \/ WatcherUnlock

QueryStep(q) == QueryCall(q) \/ QueryLock(q) \/ QueryLoad(q) \/ QueryUnlock(q)

\* Scheduling: every goroutine that can take a step eventually takes it, and
\* sync.Mutex hands the mutex to a goroutine that keeps waiting for it (strong
\* fairness of the tasks that lock). Nothing makes the process write or
\* terminate, and the caller polls getExitCode.
Fairness ==
    /\ WF_vars(StartStep)
    /\ \A s \in Streams : WF_vars(PumpStep(s))
    /\ SF_vars(WatcherStep)
    /\ \A q \in Queriers : SF_vars(QueryStep(q))

FairSpec == LiveInit /\ [][Next]_vars /\ Fairness

\* ------------------------------------------- the caller's use of the session
\* Session.Command, Session.Out and Session.Err are public fields (lines
\* 17-24): once Start has returned the session, the caller can call Wait on
\* the command itself and can write to the buffers.

\* The number of chunks the caller writes to one buffer.
MaxCallerWrites == 1

\* The chunk the caller writes; the process's bytes are numbered from 1.
CallerByte == 0

CallerWritten(s) == Cardinality({i \in 1..Len(buf[s]) : buf[s][i] = CallerByte})

\* Line 83, the call alone: exec.Cmd.Wait marks the command as waited for when
\* it is entered, long before it returns.
WatcherWaitCall ==
    /\ watcherPc = "wait"
    /\ ~panicked
    /\ finished = "no"
    /\ finished' = "watcher"
    /\ UNCHANGED <<startVars, panicked, procVars, pumpVars, watcherVars,
                   storeVars, queryVars, copyDest, processState, callerPc,
                   secondVars>>

\* Line 83 when the caller's Wait came first: exec.Cmd.Wait returns the error
\* "Wait was already called" at once, and monitorForExit drops it.
WatcherWaitRefused ==
    /\ watcherPc = "wait"
    /\ ~panicked
    /\ finished = "caller"
    /\ watcherPc' = "lock"
    /\ waitErr' = "alreadyCalled"
    /\ UNCHANGED <<startVars, panicked, procVars, pumpVars, watchers,
                   storeVars, queryVars, copyDest, waitVars, secondVars>>

\* Line 85 when no Wait has set s.Command.ProcessState: the method call on the
\* nil *os.ProcessState panics, in a goroutine nothing recovers; the program
\* dies, and line 86 is never reached.
WatcherPanic ==
    /\ watcherPc = "store"
    /\ ~panicked
    /\ processState = "nil"
    /\ panicked' = TRUE
    /\ UNCHANGED <<startVars, procVars, pumpVars, watcherVars, storeVars,
                   queryVars, copyDest, waitVars, secondVars>>

\* The caller calls session.Command.Wait(): refused when the command was never
\* started or a Wait was already called, otherwise it is the command's Wait.
CallerWaitCall ==
    /\ startPc = "returned"
    /\ ~panicked
    /\ callerPc = "none"
    /\ IF proc # "notStarted" /\ finished = "no"
          THEN finished' = "caller" /\ callerPc' = "waiting"
          ELSE callerPc' = "refused" /\ UNCHANGED finished
    /\ UNCHANGED <<startVars, panicked, procVars, pumpVars, watcherVars,
                   storeVars, queryVars, copyDest, processState, secondVars>>

\* Inside the caller's Wait: the process has terminated, and exec.Cmd.Wait
\* sets c.ProcessState before it waits for the copying goroutines.
CallerWaitReap ==
    /\ callerPc = "waiting"
    /\ ~panicked
    /\ proc = "exited"
    /\ callerPc' = "reaped"
    /\ processState' = "set"
    /\ UNCHANGED <<startVars, panicked, procVars, pumpVars, watcherVars,
                   storeVars, queryVars, copyDest, finished, secondVars>>

\* The caller's Wait returns once the copying goroutines have ended too.
CallerWaitReturn ==
    /\ callerPc = "reaped"
    /\ ~panicked
    /\ WaitReturns
    /\ callerPc' = "done"
    /\ UNCHANGED <<startVars, panicked, procVars, pumpVars, watcherVars,
                   storeVars, queryVars, copyDest, finished, processState,
                   secondVars>>

\* The session at rest: the process has exited, both copies have ended and
\* monitorForExit has returned.
Inert ==
    /\ proc = "exited"
    /\ \A s \in Streams : pump[s].pc = "done"
    /\ watcherPc = "done"

\* The caller writes a chunk to session.Out or session.Err of a session at
\* rest.  session.go never closes the buffers it allocates at lines 52-53, so
\* the buffer accepts the chunk and appends it, as a writable stream does.
ExternalWrite(s) ==
    /\ startPc = "returned"
    /\ ~panicked
    /\ Inert
    /\ CallerWritten(s) < MaxCallerWrites
    /\ buf' = [buf EXCEPT ![s] = Append(@, CallerByte)]
    /\ UNCHANGED <<startVars, panicked, procVars, pump, sinkGot, watcherVars,
                   storeVars, queryVars, copyDest, waitVars, secondVars>>

CallerNext ==
    \/ Next
    \/ WatcherWaitCall
    \/ WatcherWaitRefused
    \/ WatcherPanic
    \/ CallerWaitCall
    \/ CallerWaitReap
    \/ CallerWaitReturn
    \/ \E s \in Streams : ExternalWrite(s)

CallerSpec == LiveInit /\ [][CallerNext]_vars

\* -------------------------------------------- a second Start on the command
\* The caller passes the command of the first Start to Start again, once the
\* first call has returned.  first denotes the variables of the first session,
\* apart from command.Stdout and command.Stderr, which the second call sets.
firstVars == <<startPc, outWriter, errWriter, retSession, startErr, procVars,
               pumpVars, watcherVars, storeVars, queryVars, copyDest, waitVars>>

\* Lines 50-57 of the second call: its session literal and its sink arguments,
\* any value for stdout and none for stderr.
Start2Call(o) ==
    /\ startPc = "returned"
    /\ ~panicked
    /\ start2Pc = "idle"
    /\ start2Pc' = "wire"
    /\ writer2' = [out |-> o, err |-> NilInterface]
    /\ exitCode2' = InitExitCode
    /\ UNCHANGED <<firstVars, cmdDest, panicked, start2Err, watchers2, ret2>>

\* Lines 59-72 of the second call: the presence checks, then command.Stdout
\* and command.Stderr are overwritten.  The copying goroutines of a started
\* command keep the writers they were started with.
Start2Wire ==
    /\ start2Pc = "wire"
    /\ ~panicked
    /\ IF \E s \in Streams : SinkCheckPanics(writer2[s])
       THEN /\ panicked' = TRUE
            /\ start2Pc' = "panicked"
            /\ UNCHANGED cmdDest
       ELSE /\ cmdDest' = [s \in Streams |-> Destination(writer2[s])]
            /\ start2Pc' = "start"
            /\ UNCHANGED panicked
    /\ UNCHANGED <<firstVars, writer2, start2Err, exitCode2, watchers2, ret2>>

\* Line 74 of the second call: exec.Cmd.Start returns "exec: already started"
\* when the command has a process; when the first Start failed it has none,
\* and this Start may succeed or fail like any first one.
Start2Command(ok) ==
    /\ start2Pc = "start"
    /\ ~panicked
    /\ ok => proc = "notStarted"
    /\ start2Err' = IF ok THEN "nil" ELSE "err"
    /\ start2Pc' = "go"
    /\ UNCHANGED <<firstVars, cmdDest, panicked, writer2, exitCode2, watchers2,
                   ret2>>

\* The second call that launches a watcher whatever command.Start returned.
SecondLaunchesWatcher_Always == TRUE

\* Line 75 of the second call: if err == nil.
SecondLaunchesWatcher == start2Err = "nil"

\* Lines 75-77 of the second call: go session.monitorForExit().
Start2Go ==
    /\ start2Pc = "go"
    /\ ~panicked
    /\ start2Pc' = "return"
    /\ watchers2' = IF SecondLaunchesWatcher THEN watchers2 + 1 ELSE watchers2
    /\ UNCHANGED <<firstVars, cmdDest, panicked, writer2, start2Err, exitCode2,
                   ret2>>

\* Line 79 of the second call: return session, err.
Start2Return ==
    /\ start2Pc = "return"
    /\ ~panicked
    /\ start2Pc' = "returned"
    /\ UNCHANGED <<firstVars, cmdDest, panicked, writer2, start2Err, exitCode2,
                   watchers2, ret2>>

\* Lines 82-87 for the second session, in one step: its watcher waits for the
\* process, which terminates in one of the ways a process can, and stores the
\* exit status.
Watcher2Store ==
    /\ watchers2 > 0
    /\ ~panicked
    /\ exitCode2 = Sentinel
    /\ \E t \in Terminations : exitCode2' = ExitStatus(WaitStatusOf(t))
    /\ UNCHANGED <<firstVars, cmdDest, panicked, start2Pc, writer2, start2Err,
                   watchers2, ret2>>

\* Lines 89-94 on the second session, in one step: getExitCode returns its
\* exitCode.
Query2 ==
    /\ start2Pc = "returned"
    /\ ~panicked
    /\ exitCode2 \notin ret2
    /\ ret2' = ret2 \cup {exitCode2}
    /\ UNCHANGED <<firstVars, cmdDest, panicked, start2Pc, writer2, start2Err,
                   exitCode2, watchers2>>

RestartNext ==
    \/ Next
    \/ \E o \in SinkValues : Start2Call(o)
    \/ Start2Wire
    \/ \E ok \in BOOLEAN : Start2Command(ok)
    \/ Start2Go
    \/ Start2Return
    \/ Watcher2Store
    \/ Query2

RestartSpec == LiveInit /\ [][RestartNext]_vars

\* ================================================================ claims
\* The values of every query that has read the store: the returned ones and
\* the ones loaded and about to be returned.
QueryValues == returned \cup {qret[q] : q \in {r \in Queriers : qpc[r] = "unlock"}}

\* The exit code of a process that called exit(n).
TrueExitCode == IF termination.kind = "exit" THEN {termination.n} ELSE {}

\* C1: for a started session, a query that completes before the process
\* terminates returns the sentinel, a query that starts after the watcher has
\* stored the code and released the lock returns the code the process exited
\* with, and no query returns anything but one of these two values.
C1_QueryValues ==
    startErr = "nil" =>
        /\ proc # "exited" => QueryValues \subseteq {Sentinel}
        /\ \A q \in Queriers :
              qdone[q] /\ qAfter[q] /\ termination.kind = "exit"
                  => qret[q] = termination.n
        /\ QueryValues \subseteq {Sentinel} \cup TrueExitCode

C1_Witness ==
    /\ startErr = "nil"
    /\ termination = [kind |-> "exit", n |-> 255]
    /\ qdone["q1"] /\ qAfter["q1"] /\ qret["q1"] = 255
    /\ qdone["q2"] /\ qret["q2"] = Sentinel

\* C2: once the watcher has stored the status, no query returns the sentinel,
\* however the process terminated (exit with any status, or a signal).
C2_SentinelNeverRecorded ==
    \A q \in Queriers : qdone[q] /\ qAfter[q] => qret[q] # Sentinel

\* C3: the store is written at most once, exactly once after the watcher of a
\* started process has run, and only by the watcher while it holds the lock;
\* and a query that starts after a query returned a non-sentinel v returns v.
C3_StoreState ==
    /\ writes <= 1
    /\ watcherPc \in {"unlock", "done"} => writes = 1
    /\ watcherPc \in {"none", "wait", "lock", "store", "storing"} => writes = 0
    /\ \A q \in Queriers : qdone[q] => qSeen[q] \subseteq {qret[q]}

C3_StoreStep ==
    (exitCode' # exitCode \/ writes' # writes \/ exitWriting' # exitWriting)
        => watcherPc \in {"store", "storing"} /\ lock = "watcher"

C3_WrittenOnce == []C3_StoreState /\ [][C3_StoreStep]_vars

C3_Witness ==
    /\ writes = 1
    /\ exitCode = 1
    /\ qdone["q1"] /\ qSeen["q1"] = {1} /\ qret["q1"] = 1
    /\ qpc["q2"] = "unlock" /\ qret["q2"] = 1

\* C4: when command.Start() fails, Start returns the error with the session,
\* whose buffers are empty and whose exit code is the sentinel; no watcher is
\* launched, and every query returns the sentinel.
C4_FailedStart ==
    startErr = "err" =>
        /\ watchers = 0 /\ watcherPc = "none"
        /\ exitCode = Sentinel /\ writes = 0
        /\ QueryValues \subseteq {Sentinel}
        /\ \A s \in Streams : buf[s] = <<>>
        /\ startPc \in {"go", "return", "returned"}
        /\ startPc = "returned" => retSession = "session"
        /\ startPc = "go" => ENABLED StartGo
        /\ startPc = "return" => ENABLED StartReturn

C4_Witness ==
    /\ startErr = "err"
    /\ startPc = "returned"
    /\ \A q \in Queriers : qdone[q] /\ qret[q] = Sentinel

\* C5: a started session has exactly one watcher: launched once by Start,
\* which does not wait for it; it stores the status at most once and, once
\* finished, stays finished.
C5_WatcherState ==
    /\ watchers <= 1
    /\ writes <= watchers
    /\ watchers = 0 <=> watcherPc = "none"
    /\ startErr = "nil" /\ startPc \in {"return", "returned"} => watchers = 1
    /\ startPc = "return" => ENABLED StartReturn

C5_WatcherStep ==
    /\ watchers' # watchers => startPc = "go" /\ startErr = "nil"
    /\ watcherPc = "done" => watcherPc' = "done"
    /\ watcherPc \in {"unlock", "done"} => watcherPc' \in {"unlock", "done"}

C5_OneWatcher == []C5_WatcherState /\ [][C5_WatcherStep]_vars

C5_Witness ==
    /\ startPc = "returned"
    /\ startErr = "nil"
    /\ watchers = 1
    /\ watcherPc = "done"
    /\ writes = 1

\* C6: a query never waits for the process. The watcher does not hold the
\* lock while it is blocked in Command.Wait(), whoever holds the lock can take
\* its next step, every query that has been called returns, and while the
\* process runs every query returns the sentinel.
C6_LockState ==
    /\ watcherPc = "wait" => lock # "watcher"
    /\ lock = "watcher" =>
          /\ watcherPc \in {"store", "storing", "unlock"}
          /\ ENABLED (WatcherStoreBegin \/ WatcherStoreEnd \/ WatcherUnlock)
    /\ \A q \in Queriers :
          /\ lock = q => qpc[q] \in {"load", "unlock"}
          /\ qpc[q] = "load" => ENABLED QueryLoad(q)
          /\ qpc[q] = "unlock" => ENABLED QueryUnlock(q)
    /\ proc = "running" => QueryValues \subseteq {Sentinel}

C6_QueryNeverWaits ==
    /\ []C6_LockState
    /\ \A q \in Queriers : (qpc[q] = "lock") ~> (qpc[q] = "idle" /\ qdone[q])

C6_Witness ==
    /\ proc = "running"
    /\ watcherPc = "wait"
    /\ Sentinel \in returned
    /\ qpc["q1"] = "unlock" /\ lock = "q1" /\ qret["q1"] = Sentinel
    /\ qpc["q2"] = "lock"

\* C7: when a started process has exited with status c, the store eventually
\* holds c and a polling caller eventually gets c from a query.
Exited == startErr = "nil" /\ termination.kind = "exit"

C7_EventuallyExitCode ==
    /\ Exited ~> (Exited /\ exitCode = termination.n)
    /\ \A q \in Queriers : Exited ~> (Exited /\ qdone[q] /\ qret[q] = termination.n)

C7_Witness ==
    /\ termination = [kind |-> "exit", n |-> 1]
    /\ exitCode = 1
    /\ Len(buf["out"]) = budget
    /\ \A q \in Queriers : qdone[q] /\ qret[q] = 1

IsPrefix(a, b) == Len(a) <= Len(b) /\ SubSeq(b, 1, Len(a)) = a

HasSink(s) == Len(copyDest[s]) = 2

\* C8 (as amended): the capture buffer of a stream always holds a prefix of
\* the bytes the process wrote to that stream, in emission order; once the
\* process has terminated and the pump has ended without a failed write, it
\* holds exactly those bytes. (A failed or short sink write ends the pump, and
\* what the process wrote after the failed chunk is never captured.)
C8_CaptureIsOutput ==
    \A s \in Streams :
        /\ IsPrefix(buf[s], emitted[s])
        /\ proc = "exited" /\ pump[s].pc = "done" /\ ~pump[s].err
              => buf[s] = emitted[s]

C8_Witness ==
    /\ proc = "exited"
    /\ HasSink("out") /\ pump["out"].pc = "done" /\ ~pump["out"].err
    /\ buf["out"] = emitted["out"] /\ Len(buf["out"]) = MaxEmit

\* C8 as claimed: with or without sinks, after the process has terminated and
\* the pump has ended the buffer holds exactly the bytes the process wrote.
C8_Original ==
    \A s \in Streams :
        /\ IsPrefix(buf[s], emitted[s])
        /\ proc = "exited" /\ pump[s].pc = "done" => buf[s] = emitted[s]

\* C9 (as amended): the bytes a sink accepted are always a prefix of the
\* capture buffer's content; a stream without a sink delivers nothing; while a
\* chunk is on its way to the sink the buffer is ahead by exactly that chunk;
\* between chunks, and as long as no sink write has failed or been short, the
\* two are equal. (The chunk of a failed or short sink write stays in the
\* buffer although the sink did not get all of it.)
C9_SinkFollowsCapture ==
    \A s \in Streams :
        /\ IsPrefix(sinkGot[s], buf[s])
        /\ ~HasSink(s) => sinkGot[s] = <<>>
        /\ HasSink(s) /\ pump[s].pc = "write" /\ pump[s].idx = 2
              => buf[s] = sinkGot[s] \o pump[s].chunk
        /\ HasSink(s) /\ pump[s].pc \in {"read", "done"} /\ ~pump[s].err
              => sinkGot[s] = buf[s]

C9_Witness ==
    /\ HasSink("err") /\ pump["err"].pc = "done" /\ ~pump["err"].err
    /\ sinkGot["err"] = buf["err"] /\ Len(buf["err"]) = MaxEmit
    /\ proc = "exited"

\* C9 as claimed: for any sink, failing ones included, what the sink got is
\* what the buffer got, whenever no chunk is in mid-write.
C9_Original ==
    \A s \in Streams :
        HasSink(s) /\ pump[s].pc \in {"read", "done"} => sinkGot[s] = buf[s]

\* The sink arguments for which the claim wires the buffer alone: absent, or a
\* nil value of a static type.
AbsentOrTypedNil(w) == w = NilInterface \/ w.isNil

\* C10: for each sink argument, Start wires the buffer alone when the sink is
\* absent or a typed nil and the fan-out to buffer and sink for any other
\* writer, whatever its kind; the presence check never panics.
C10_Wiring ==
    /\ ~panicked
    /\ startPc # "wire" =>
          \A s \in Streams :
              cmdDest[s] = IF AbsentOrTypedNil(WriterOf(s))
                           THEN <<"buffer">>
                           ELSE <<"buffer", "sink">>

\* The stream's destination is attached and its first writer is the buffer.
Captured(s) == Len(cmdDest[s]) >= 1 /\ cmdDest[s][1] = "buffer"

\* C12: the destinations are attached before command.Start() is attempted and
\* the watcher is launched only after it succeeded, so whenever the process
\* exists every byte it writes has a capture buffer to go to.
C12_WiredState ==
    /\ startErr # "unset" => \A s \in Streams : Captured(s)
    /\ proc # "notStarted" => \A s \in Streams : Captured(s)
    /\ \A s \in Streams : pump[s].pc # "none" \/ emitted[s] # <<>> => Captured(s)
    /\ watchers > 0 => startErr = "nil" /\ proc # "notStarted"

C12_WiredStep ==
    /\ startErr' # startErr =>
          /\ \A s \in Streams : Captured(s)
          /\ cmdDest' = cmdDest
          /\ watchers = 0 /\ watchers' = 0
    /\ watchers' # watchers => startErr = "nil" /\ startErr' = "nil"

C12_WiredBeforeStart == []C12_WiredState /\ [][C12_WiredStep]_vars

C12_Witness ==
    /\ proc = "running"
    /\ startPc = "go"
    /\ watchers = 0
    /\ Len(buf["out"]) = 1 /\ Len(pipe["out"]) = 1

\* C13: with a sink, a chunk goes to the buffer first and to the sink second;
\* the copy goes on to the next chunk only after the sink took the chunk in
\* full; a failed or short write ends the copy, and after that nothing is
\* appended to the buffer or the sink.
C13_FailedState ==
    \A s \in Streams : pump[s].err => pump[s].pc = "done" /\ HasSink(s)

C13_FanOutStep ==
    \A s \in Streams :
        /\ buf'[s] # buf[s] => pump[s].pc = "write" /\ pump[s].idx = 1
        /\ sinkGot'[s] # sinkGot[s] =>
              /\ HasSink(s) /\ pump[s].pc = "write" /\ pump[s].idx = 2
              /\ buf[s] = sinkGot[s] \o pump[s].chunk
        /\ pump[s].pc = "write" /\ pump[s].idx = 2 /\ pump'[s] # pump[s] =>
              /\ IsPrefix(sinkGot'[s], sinkGot[s] \o pump[s].chunk)
              /\ pump'[s].pc = "read" => sinkGot'[s] = sinkGot[s] \o pump[s].chunk
              /\ sinkGot'[s] # sinkGot[s] \o pump[s].chunk =>
                    pump'[s].err /\ pump'[s].pc = "done"
        /\ pump[s].err =>
              pump'[s] = pump[s] /\ buf'[s] = buf[s] /\ sinkGot'[s] = sinkGot[s]

C13_FailurePropagates == []C13_FailedState /\ [][C13_FanOutStep]_vars

C13_Witness ==
    /\ proc = "exited"
    /\ pump["out"].err
    /\ emitted["out"] = <<1, 2>> /\ buf["out"] = <<1>> /\ pipe["out"] = <<2>>
    /\ sinkGot["out"] = <<>>
    /\ watcherPc = "done"

Bytes(seq) == {seq[i] : i \in 1..Len(seq)}

Other(s) == IF s = "out" THEN "err" ELSE "out"

\* C16: what the process writes to one stream reaches only that stream's
\* buffer and sink: a step that appends to one buffer or sink leaves the other
\* stream's buffer and sink and the exit-code store unchanged, every captured
\* or delivered byte was written to that very stream, and a stream the process
\* never wrote to has an empty buffer.
C16_IsolatedState ==
    \A s \in Streams :
        /\ Bytes(buf[s]) \subseteq Bytes(emitted[s])
        /\ Bytes(sinkGot[s]) \subseteq Bytes(emitted[s])
        /\ Bytes(buf[s]) \cap Bytes(emitted[Other(s)]) = {}
        /\ emitted[s] = <<>> => buf[s] = <<>> /\ sinkGot[s] = <<>>

C16_IsolatedStep ==
    \A s \in Streams :
        buf'[s] # buf[s] \/ sinkGot'[s] # sinkGot[s] \/ emitted'[s] # emitted[s] =>
            /\ buf'[Other(s)] = buf[Other(s)]
            /\ sinkGot'[Other(s)] = sinkGot[Other(s)]
            /\ exitCode' = exitCode /\ writes' = writes

C16_StreamIsolation == []C16_IsolatedState /\ [][C16_IsolatedStep]_vars

C16_Witness ==
    /\ emitted["err"] = <<1, 2>> /\ buf["err"] = <<1, 2>>
    /\ HasSink("err") /\ sinkGot["err"] = <<1, 2>>
    /\ buf["out"] = <<>> /\ sinkGot["out"] = <<>>
    /\ termination = [kind |-> "exit", n |-> 1]
    /\ exitCode = 1

WaitHasReturned == watcherPc \in {"lock", "store", "storing", "unlock", "done"}

\* C17 (as amended): the watcher stores the status only after Command.Wait()
\* has returned, which is after the process terminated and both copies ended;
\* so when a query returns a non-sentinel code, no buffer grows any more
\* through the process's streams, and a buffer whose copy ended without a
\* failed write holds every byte the process wrote to its stream.
C17_DrainedState ==
    /\ writes > 0 \/ exitWriting \/ QueryValues \ {Sentinel} # {} => WaitHasReturned
    /\ WaitHasReturned =>
          /\ proc = "exited"
          /\ \A s \in Streams :
                /\ pump[s].pc = "done"
                /\ ~pump[s].err => buf[s] = emitted[s]

C17_DrainedStep ==
    WaitHasReturned => buf' = buf /\ sinkGot' = sinkGot /\ emitted' = emitted

C17_DrainBeforeExitCode == []C17_DrainedState /\ [][C17_DrainedStep]_vars

C17_Witness ==
    /\ \E q \in Queriers : qdone[q] /\ qret[q] = 255
    /\ buf["out"] = <<1>> /\ buf["err"] = <<2>>
    /\ emitted["out"] = <<1>> /\ emitted["err"] = <<2>>

\* C17 as claimed: whenever a query has returned a non-sentinel code, both
\* buffers hold every byte the process wrote to their streams.
C17_Original ==
    QueryValues \ {Sentinel} # {} => \A s \in Streams : buf[s] = emitted[s]

\* ------------------------------------------------------------------- C11
\* C11: when the watcher's Wait on the command fails after a successful start
\* because the caller has called Wait on the command itself, the watcher
\* neither crashes nor writes the exit-code store: the store keeps the
\* sentinel and every query returns the sentinel.
C11_FailedWaitKeepsSentinel ==
    waitErr = "alreadyCalled" =>
        /\ ~panicked
        /\ writes = 0
        /\ ~exitWriting
        /\ exitCode = Sentinel
        /\ QueryValues \subseteq {Sentinel}

\* ------------------------------------------------------------------- C14
\* C14: the exit code is written and read only by the holder of the session's
\* lock, the lock has one holder at a time, and whoever holds the lock can
\* always go on to release it, also when the watcher's Wait has failed and
\* there is no exit status to extract.
C14_LockDiscipline ==
    /\ exitWriting \/ watcherPc = "storing" => lock = "watcher"
    /\ \A q \in Queriers : qpc[q] \in {"load", "unlock"} => lock = q
    /\ lock = "watcher" =>
          /\ watcherPc \in {"store", "storing", "unlock"}
          /\ ENABLED (WatcherStoreBegin \/ WatcherStoreEnd \/ WatcherUnlock)
    /\ \A q \in Queriers : lock = q => ENABLED (QueryLoad(q) \/ QueryUnlock(q))

\* ------------------------------------------------------------------- C15
\* C15: once the process has exited, its output is drained and the watcher has
\* fixed the exit code, no write by anyone changes the content of the stdout
\* or the stderr capture buffer.
C15_InertBuffersClosed == [][Inert => buf' = buf]_vars

\* ------------------------------------------------------------------- C18
\* C18: of the Start calls on one command at most one succeeds, and a call
\* made after a successful one returns the start error; a call that returns
\* the start error launches no watcher and returns a fresh session whose exit
\* code stays the sentinel; one process never has two watchers; and no step of
\* a later call changes the first session's exit-code store, its watcher, or
\* what its buffers and its sink have received and go on to receive.
C18_SecondState ==
    /\ startErr = "nil" => start2Err \in {"unset", "err"}
    /\ start2Err = "err" =>
          /\ watchers2 = 0
          /\ exitCode2 = Sentinel
          /\ ret2 \subseteq {Sentinel}
    /\ watchers + watchers2 <= 1
    /\ \A s \in Streams :
          /\ IsPrefix(buf[s], emitted[s])
          /\ ~SinkPresent(WriterOf(s)) => sinkGot[s] = <<>>

C18_SecondStep ==
    start2Pc' # start2Pc =>
        /\ <<exitCode, exitWriting, writes, lock>>' =
              <<exitCode, exitWriting, writes, lock>>
        /\ <<watcherPc, watchers, waitErr>>' = <<watcherPc, watchers, waitErr>>
        /\ <<buf, sinkGot, pump, copyDest>>' = <<buf, sinkGot, pump, copyDest>>
        /\ <<proc, termination>>' = <<proc, termination>>

C18_RepeatedStart == []C18_SecondState /\ [][C18_SecondStep]_vars

\* The first Start succeeded without a sink; the second, called with a sink,
\* has returned the start error; its session has been queried; the first
\* session has captured the output and recorded the exit code.
C18_Witness ==
    /\ startErr = "nil"
    /\ outWriter = NilInterface
    /\ start2Pc = "returned"
    /\ start2Err = "err"
    /\ writer2["out"] = [kind |-> "Ptr", isNil |-> FALSE]
    /\ ret2 = {Sentinel}
    /\ watchers = 1
    /\ exitCode = 1
    /\ buf["out"] = <<1>>
    /\ sinkGot["out"] = <<>>

\* C18 as stated: only the first call can succeed, so every later call that
\* gets past command.Start() has the start error, no watcher and the sentinel.
C18_Original ==
    start2Pc \in {"go", "return", "returned"} =>
        /\ start2Err = "err"
        /\ watchers2 = 0
        /\ exitCode2 = Sentinel

====
